---- MODULE Spec2Model ----
(***************************************************************************)
(* AMG_Encoder/__init__.py: the three autograd functions                   *)
(* CreateTransformationMatricesFunction, EncodeCoordinates, FeatureDensity *)
(* and the public wrappers create_transformation_matrices, encode and      *)
(* feature_density.  Every call has its own autograd context (ctx); the    *)
(* native extension _C is opaque: a call to one of its entry points either *)
(* returns fresh tensors or raises.  A handler is split where it hands     *)
(* control to the native extension, the one point where other calls can    *)
(* run in between.                                                         *)
(***************************************************************************)
EXTENDS Integers, Sequences, FiniteSets, TLC

VARIABLES fn, needs, autocast, pc, saved, log, ret, grads,
          shape0, shape, order, stage

vars == <<fn, needs, autocast, pc, saved, log, ret, grads,
          shape0, shape, order, stage>>

callVars == <<fn, needs, autocast, pc, saved, log, ret, grads>>
permVars == <<shape0, shape, order, stage>>

\* Number of calls of the public functions that may be in progress together.
MaxCalls == 2
\* Largest extent of one axis of a tensor shape.
MaxDim == 3

Calls == 1 .. MaxCalls

\* What the native extension can raise.
Errors == {"RuntimeError", "OutOfMemoryError"}

(***************************************************************************)
(* Tensors.  call/name/from say which tensor it is, axes[i] is the axis of *)
(* the original tensor found at position i, layout is "dense" for          *)
(* contiguous memory and "strided" for a permuted view.                    *)
(***************************************************************************)
None == [call |-> 0, name |-> "None", from |-> "none", axes |-> <<>>,
         layout |-> "none", dtype |-> "none"]

Iota(n) == [i \in 1 .. n |-> i - 1]

CreateParams == <<"rotations", "scales", "translations">>
EncodeParams == <<"query_coordinates", "rotations", "scales", "translations",
                  "feature_grids">>
DensityParams == <<"query_coordinates", "rotations", "scales", "translations">>

Params(f) ==
    CASE f = "create_transformation_matrices" -> CreateParams
      [] f = "encode" -> EncodeParams
      [] f = "feature_density" -> DensityParams
      [] OTHER -> <<>>

Rank(name) == IF name = "feature_grids" THEN 5 ELSE 2

\* The tensor the caller passes for parameter `name` of call c.
Input(c, name) ==
    [call |-> c, name |-> name, from |-> "caller", axes |-> Iota(Rank(name)),
     layout |-> "dense", dtype |-> "float32"]

Inputs(c, f) == [i \in 1 .. Len(Params(f)) |-> Input(c, Params(f)[i])]

\* grad_output, which the autograd engine hands to backward.
GradOutput(c) ==
    [call |-> c, name |-> "grad_output", from |-> "autograd", axes |-> Iota(2),
     layout |-> "dense", dtype |-> "float32"]

\* Tensor.permute on a sequence of per-axis values: position i of the result
\* holds what was at position perm[i] (0-based) of the argument.
PermuteSeq(s, perm) == [i \in 1 .. Len(perm) |-> s[perm[i] + 1]]

Permute(t, perm) ==
    [t EXCEPT !.axes = PermuteSeq(t.axes, perm),
              !.layout = IF perm = Iota(Len(perm)) THEN t.layout ELSE "strided"]

\* Tensor.contiguous: same axes, dense memory.
Contiguous(t) == [t EXCEPT !.layout = "dense"]

\* custom_fwd(cast_inputs=dt): with autocast enabled every floating-point
\* input is replaced by a copy of type dt; without it the inputs are untouched.
CastInputs(ts, ac, dt) ==
    IF ac THEN [i \in 1 .. Len(ts) |-> [ts[i] EXCEPT !.dtype = dt]] ELSE ts

(***************************************************************************)
(* The native extension _C.  Each entry point returns fresh tensors named   *)
(* after the variables the source binds them to; a gradient has the axes   *)
(* and type of the argument it is the gradient of.                         *)
(***************************************************************************)
NativeTensor(c, name, entry, ax, dt) ==
    [call |-> c, name |-> name, from |-> entry, axes |-> ax,
     layout |-> "dense", dtype |-> dt]

GradLike(c, name, entry, t) == NativeTensor(c, name, entry, t.axes, t.dtype)

createTransformationMatricesForward(c, a) ==
    <<NativeTensor(c, "result", "createTransformationMatricesForward",
                   Iota(3), a[1].dtype)>>

createTransformationMatricesBackward(c, a) ==
    <<GradLike(c, "grad_rotations", "createTransformationMatricesBackward", a[1]),
      GradLike(c, "grad_scales", "createTransformationMatricesBackward", a[2]),
      GradLike(c, "grad_translations", "createTransformationMatricesBackward", a[3])>>

encodeForward(c, a) ==
    <<NativeTensor(c, "feature_vectors", "encodeForward", Iota(2), a[1].dtype)>>

encodeBackward(c, a) ==
    <<GradLike(c, "grad_feature_grids", "encodeBackward", a[5])>>

featureDensityForward(c, a) ==
    <<NativeTensor(c, "density", "featureDensityForward", Iota(2), a[1].dtype)>>

featureDensityBackward(c, a) ==
    <<GradLike(c, "dL_dRotations", "featureDensityBackward", a[2]),
      GradLike(c, "dL_dScales", "featureDensityBackward", a[3]),
      GradLike(c, "dL_dTranslations", "featureDensityBackward", a[4])>>

NativeResult(entry, c, a) ==
    CASE entry = "createTransformationMatricesForward" ->
             createTransformationMatricesForward(c, a)
      [] entry = "createTransformationMatricesBackward" ->
             createTransformationMatricesBackward(c, a)
      [] entry = "encodeForward" -> encodeForward(c, a)
      [] entry = "encodeBackward" -> encodeBackward(c, a)
      [] entry = "featureDensityForward" -> featureDensityForward(c, a)
      [] entry = "featureDensityBackward" -> featureDensityBackward(c, a)

ForwardEntries ==
    {"createTransformationMatricesForward", "encodeForward", "featureDensityForward"}

BackwardEntries ==
    {"createTransformationMatricesBackward", "encodeBackward", "featureDensityBackward"}

\* The native calls of call c, oldest first: entry point, arguments, outcome.
CallNative(lg, c, entry, a) ==
    [lg EXCEPT ![c] = Append(@, [entry |-> entry, args |-> a,
                                 outcome |-> "pending", err |-> "none",
                                 result |-> <<>>])]

NativeDone(lg, c, outcome, e, v) ==
    [lg EXCEPT ![c] = [@ EXCEPT ![Len(@)] =
                          [@ EXCEPT !.outcome = outcome, !.err = e, !.result = v]]]

Pending(c) == log[c][Len(log[c])]

\* What the native call in progress for call c returns, if it returns.
NativeReturns(c) == NativeResult(Pending(c).entry, c, Pending(c).args)

\* What a handler hands back to its caller: nothing yet, a value, or an error.
NoResult == [status |-> "none", value |-> <<>>, err |-> "none"]
Returned(v) == [status |-> "returned", value |-> v, err |-> "none"]
Raised(e) == [status |-> "raised", value |-> <<>>, err |-> e]

\* Variant of save_for_backward: one store kept on the class, so that every
\* call's context sees the tensors saved last.
save_shared(sv, c, ts) == [d \in DOMAIN sv |-> ts]

\* ctx.save_for_backward: the context of call c, and only that one.
save_for_backward(sv, c, ts) == [sv EXCEPT ![c] = ts]

(***************************************************************************)
(* Initial state: no call made.                                            *)
(***************************************************************************)
InitCalls ==
    /\ fn = [c \in Calls |-> "none"]
    /\ needs = [c \in Calls |-> <<>>]
    /\ autocast = [c \in Calls |-> FALSE]
    /\ pc = [c \in Calls |-> "idle"]
    /\ saved = [c \in Calls |-> <<>>]
    /\ log = [c \in Calls |-> <<>>]
    /\ ret = [c \in Calls |-> NoResult]
    /\ grads = [c \in Calls |-> NoResult]

Init ==
    /\ InitCalls
    /\ shape0 = <<1, 1, 1, 1, 1>>
    /\ shape = shape0
    /\ order = Iota(5)
    /\ stage = "caller"

\* torch.autograd.Function.apply: a new context with needs_input_grad set
\* from the inputs; forward runs next.
Apply(c, f, flags, ac) ==
    /\ pc[c] = "idle"
    /\ fn' = [fn EXCEPT ![c] = f]
    /\ needs' = [needs EXCEPT ![c] = flags]
    /\ autocast' = [autocast EXCEPT ![c] = ac]
    /\ UNCHANGED permVars

\* The autograd engine runs backward of a call once its forward has returned
\* and some input requires a gradient.
BackwardDue(c, f) ==
    /\ fn[c] = f
    /\ pc[c] = "fwd_done"
    /\ \E i \in 1 .. Len(needs[c]) : needs[c][i]

(***************************************************************************)
(* CreateTransformationMatricesFunction                                    *)
(***************************************************************************)
CreateTransformationMatricesFunction_forward(c) ==
    LET a == Inputs(c, "create_transformation_matrices") IN
    /\ saved' = save_for_backward(saved, c, a)
    /\ log' = CallNative(log, c, "createTransformationMatricesForward", a)
    /\ pc' = [pc EXCEPT ![c] = "fwd_native"]
    /\ UNCHANGED <<ret, grads>>

CreateTransformationMatricesFunction_forward_return(c) ==
    /\ fn[c] = "create_transformation_matrices"
    /\ pc[c] = "fwd_native"
    /\ log' = NativeDone(log, c, "returned", "none", NativeReturns(c))
    /\ ret' = [ret EXCEPT ![c] =
                  Returned(NativeReturns(c))]
    /\ pc' = [pc EXCEPT ![c] = "fwd_done"]
    /\ UNCHANGED <<permVars, fn, needs, autocast, saved, grads>>

CreateTransformationMatricesFunction_backward(c) ==
    /\ BackwardDue(c, "create_transformation_matrices")
    /\ log' = CallNative(log, c, "createTransformationMatricesBackward",
                         saved[c] \o <<GradOutput(c)>>)
    /\ pc' = [pc EXCEPT ![c] = "bwd_native"]
    /\ UNCHANGED <<permVars, fn, needs, autocast, saved, ret, grads>>

CreateTransformationMatricesFunction_backward_return(c) ==
    /\ fn[c] = "create_transformation_matrices"
    /\ pc[c] = "bwd_native"
    /\ log' = NativeDone(log, c, "returned", "none", NativeReturns(c))
    /\ grads' = [grads EXCEPT ![c] =
                    Returned(NativeReturns(c))]
    /\ pc' = [pc EXCEPT ![c] = "bwd_done"]
    /\ UNCHANGED <<permVars, fn, needs, autocast, saved, ret>>

create_transformation_matrices(c, flags) ==
    /\ Apply(c, "create_transformation_matrices", flags, FALSE)
    /\ CreateTransformationMatricesFunction_forward(c)

(***************************************************************************)
(* EncodeCoordinates                                                       *)
(***************************************************************************)
\* Variant of GridsBackwardPerm: the forward permutation used again.
GridsBackwardPermRepeated == <<2, 3, 4, 0, 1>>

QueryPerm == <<1, 0>>
GridsForwardPerm == <<2, 3, 4, 0, 1>>
GridsBackwardPerm == <<3, 4, 0, 1, 2>>

\* The arguments forward is entered with, after custom_fwd's cast.
EncodeForwardArgs(c, ac) == CastInputs(Inputs(c, "encode"), ac, "float16")

permuted_query(c, ac) == Contiguous(Permute(EncodeForwardArgs(c, ac)[1], QueryPerm))

permuted_grids(c, ac) ==
    Contiguous(Permute(EncodeForwardArgs(c, ac)[5], GridsForwardPerm))

\* The five tensors forward passes to encodeForward.
EncodeNativeArgs(c, ac) ==
    <<permuted_query(c, ac), EncodeForwardArgs(c, ac)[2], EncodeForwardArgs(c, ac)[3],
      EncodeForwardArgs(c, ac)[4], permuted_grids(c, ac)>>

\* Variant of EncodeSavedTensors: the tensors as forward was entered with
\* them, before the permutations.
EncodeSavedOriginal(c, ac) == EncodeForwardArgs(c, ac)

\* The five tensors forward gives to ctx.save_for_backward.
EncodeSavedTensors(c, ac) ==
    <<permuted_query(c, ac), EncodeForwardArgs(c, ac)[2], EncodeForwardArgs(c, ac)[3],
      EncodeForwardArgs(c, ac)[4], permuted_grids(c, ac)>>

\* any(ctx.needs_input_grad[1:])
AnyNeedsInputGrad(flags) == \E i \in 2 .. Len(flags) : flags[i]

EncodeCoordinates_forward(c, ac) ==
    /\ log' = CallNative(log, c, "encodeForward", EncodeNativeArgs(c, ac))
    /\ pc' = [pc EXCEPT ![c] = "fwd_native"]
    /\ UNCHANGED <<saved, ret, grads>>

EncodeCoordinates_forward_return(c) ==
    /\ fn[c] = "encode"
    /\ pc[c] = "fwd_native"
    /\ log' = NativeDone(log, c, "returned", "none", NativeReturns(c))
    /\ saved' = IF AnyNeedsInputGrad(needs[c])
                THEN save_for_backward(saved, c, EncodeSavedTensors(c, autocast[c]))
                ELSE saved
    /\ ret' = [ret EXCEPT ![c] =
                  Returned(NativeReturns(c))]
    /\ pc' = [pc EXCEPT ![c] = "fwd_done"]
    /\ UNCHANGED <<permVars, fn, needs, autocast, grads>>

\* Variant of EncodeGradients: the gradient in the first position.
EncodeGradientsFirst(g) ==
    <<Contiguous(Permute(g, GridsBackwardPerm)), None, None, None, None>>

\* The tuple backward returns when it has the native gradient g.
EncodeGradients(g) ==
    <<None, None, None, None, Contiguous(Permute(g, GridsBackwardPerm))>>

EncodeCoordinates_backward(c) ==
    /\ BackwardDue(c, "encode")
    /\ IF saved[c] = <<>>
       THEN /\ grads' = [grads EXCEPT ![c] = Returned(<<None, None, None, None, None>>)]
            /\ pc' = [pc EXCEPT ![c] = "bwd_done"]
            /\ UNCHANGED log
       ELSE /\ log' = CallNative(log, c, "encodeBackward",
                                 saved[c] \o <<GradOutput(c)>>)
            /\ pc' = [pc EXCEPT ![c] = "bwd_native"]
            /\ UNCHANGED grads
    /\ UNCHANGED <<permVars, fn, needs, autocast, saved, ret>>

EncodeCoordinates_backward_return(c) ==
    /\ fn[c] = "encode"
    /\ pc[c] = "bwd_native"
    /\ log' = NativeDone(log, c, "returned", "none", NativeReturns(c))
    /\ grads' = [grads EXCEPT ![c] =
                    Returned(EncodeGradients(NativeReturns(c)[1]))]
    /\ pc' = [pc EXCEPT ![c] = "bwd_done"]
    /\ UNCHANGED <<permVars, fn, needs, autocast, saved, ret>>

encode(c, flags, ac) ==
    /\ Apply(c, "encode", flags, ac)
    /\ EncodeCoordinates_forward(c, ac)

(***************************************************************************)
(* FeatureDensity                                                          *)
(***************************************************************************)
FeatureDensity_forward(c) ==
    /\ log' = CallNative(log, c, "featureDensityForward",
                         Inputs(c, "feature_density"))
    /\ pc' = [pc EXCEPT ![c] = "fwd_native"]
    /\ UNCHANGED <<saved, ret, grads>>

FeatureDensity_forward_return(c) ==
    /\ fn[c] = "feature_density"
    /\ pc[c] = "fwd_native"
    /\ log' = NativeDone(log, c, "returned", "none", NativeReturns(c))
    /\ saved' = save_for_backward(saved, c, Inputs(c, "feature_density"))
    /\ ret' = [ret EXCEPT ![c] =
                  Returned(NativeReturns(c))]
    /\ pc' = [pc EXCEPT ![c] = "fwd_done"]
    /\ UNCHANGED <<permVars, fn, needs, autocast, grads>>

\* Variant of DensityGradients: the gradients one position to the left.
DensityGradientsShifted(g) == <<g[1], g[2], g[3], None>>

\* The tuple backward returns when it has the three native gradients g.
DensityGradients(g) == <<None, g[1], g[2], g[3]>>

\* Variant of FeatureDensity_backward: the forward entry point called again.
FeatureDensity_backward_wrong_entry(c) ==
    /\ BackwardDue(c, "feature_density")
    /\ log' = CallNative(log, c, "featureDensityForward", saved[c])
    /\ pc' = [pc EXCEPT ![c] = "bwd_native"]
    /\ UNCHANGED <<permVars, fn, needs, autocast, saved, ret, grads>>

FeatureDensity_backward(c) ==
    /\ BackwardDue(c, "feature_density")
    /\ log' = CallNative(log, c, "featureDensityBackward",
                         saved[c] \o <<GradOutput(c)>>)
    /\ pc' = [pc EXCEPT ![c] = "bwd_native"]
    /\ UNCHANGED <<permVars, fn, needs, autocast, saved, ret, grads>>

FeatureDensity_backward_return(c) ==
    /\ fn[c] = "feature_density"
    /\ pc[c] = "bwd_native"
    /\ log' = NativeDone(log, c, "returned", "none", NativeReturns(c))
    /\ grads' = [grads EXCEPT ![c] =
                    Returned(DensityGradients(NativeReturns(c)))]
    /\ pc' = [pc EXCEPT ![c] = "bwd_done"]
    /\ UNCHANGED <<permVars, fn, needs, autocast, saved, ret>>

feature_density(c, flags) ==
    /\ Apply(c, "feature_density", flags, FALSE)
    /\ FeatureDensity_forward(c)

(***************************************************************************)
(* A native entry point raises.  No handler has a try block: the error     *)
(* leaves the handler that made the call, and the rest of it does not run. *)
(***************************************************************************)
\* Variant of ForwardRaise: the error caught and None returned in place of
\* the output.
ForwardRaiseSwallowed(c, e) ==
    /\ pc[c] = "fwd_native"
    /\ log' = NativeDone(log, c, "raised", e, <<>>)
    /\ ret' = [ret EXCEPT ![c] = Returned(<<None>>)]
    /\ pc' = [pc EXCEPT ![c] = "fwd_done"]
    /\ UNCHANGED <<permVars, fn, needs, autocast, saved, grads>>

ForwardRaise(c, e) ==
    /\ pc[c] = "fwd_native"
    /\ log' = NativeDone(log, c, "raised", e, <<>>)
    /\ ret' = [ret EXCEPT ![c] = Raised(e)]
    /\ pc' = [pc EXCEPT ![c] = "fwd_raised"]
    /\ UNCHANGED <<permVars, fn, needs, autocast, saved, grads>>

BackwardRaise(c, e) ==
    /\ pc[c] = "bwd_native"
    /\ log' = NativeDone(log, c, "raised", e, <<>>)
    /\ grads' = [grads EXCEPT ![c] = Raised(e)]
    /\ pc' = [pc EXCEPT ![c] = "bwd_raised"]
    /\ UNCHANGED <<permVars, fn, needs, autocast, saved, ret>>

(***************************************************************************)
(* Specifications                                                          *)
(***************************************************************************)
AllFlags(n) == [1 .. n -> BOOLEAN]

\* No input requires a gradient, only the first does, or all do.
SomeFlags(n) ==
    {[i \in 1 .. n |-> FALSE], [i \in 1 .. n |-> i = 1], [i \in 1 .. n |-> TRUE]}

\* The flag combinations tried: every one, or the three above.
Flags(n, every) == IF every THEN AllFlags(n) ELSE SomeFlags(n)

Step(c, every) ==
    \/ \E flags \in Flags(3, every) : create_transformation_matrices(c, flags)
    \/ CreateTransformationMatricesFunction_forward_return(c)
    \/ CreateTransformationMatricesFunction_backward(c)
    \/ CreateTransformationMatricesFunction_backward_return(c)
    \/ \E flags \in Flags(5, every), ac \in BOOLEAN : encode(c, flags, ac)
    \/ EncodeCoordinates_forward_return(c)
    \/ EncodeCoordinates_backward(c)
    \/ EncodeCoordinates_backward_return(c)
    \/ \E flags \in Flags(4, every) : feature_density(c, flags)
    \/ FeatureDensity_forward_return(c)
    \/ FeatureDensity_backward(c)
    \/ FeatureDensity_backward_return(c)
    \/ \E e \in Errors : ForwardRaise(c, e)
    \/ \E e \in Errors : BackwardRaise(c, e)

\* Several calls in progress together.
Next == \E c \in Calls : Step(c, FALSE)

Spec == Init /\ [][Next]_vars

\* One call, every combination of requires-gradient flags.
NextAllFlags == Step(1, TRUE)

SpecAllFlags == Init /\ [][NextAllFlags]_vars

\* The two permutations of feature_grids, applied to every shape.
InitPermute ==
    /\ InitCalls
    /\ shape0 \in [1 .. 5 -> 1 .. MaxDim]
    /\ shape = shape0
    /\ order = Iota(5)
    /\ stage = "caller"

PermuteForward ==
    /\ stage = "caller"
    /\ shape' = PermuteSeq(shape, GridsForwardPerm)
    /\ order' = PermuteSeq(order, GridsForwardPerm)
    /\ stage' = "native"
    /\ UNCHANGED <<shape0, callVars>>

PermuteBackward ==
    /\ stage = "native"
    /\ shape' = PermuteSeq(shape, GridsBackwardPerm)
    /\ order' = PermuteSeq(order, GridsBackwardPerm)
    /\ stage' = "gradient"
    /\ UNCHANGED <<shape0, callVars>>

NextPermute == PermuteForward \/ PermuteBackward

SpecPermute == InitPermute /\ [][NextPermute]_vars

(***************************************************************************)
(* Properties                                                              *)
(***************************************************************************)
FwdEntry(f) ==
    CASE f = "create_transformation_matrices" -> "createTransformationMatricesForward"
      [] f = "encode" -> "encodeForward"
      [] f = "feature_density" -> "featureDensityForward"

BwdEntry(f) ==
    CASE f = "create_transformation_matrices" -> "createTransformationMatricesBackward"
      [] f = "encode" -> "encodeBackward"
      [] f = "feature_density" -> "featureDensityBackward"

\* Positions of a call whose forward has returned its output.
AfterForward == {"fwd_done", "bwd_native", "bwd_done", "bwd_raised"}
\* Positions of a call whose backward has been entered.
InBackward == {"bwd_native", "bwd_done", "bwd_raised"}

\* C1: every call of a public function makes exactly one native call, to the
\* forward entry point of that function, and returns exactly what that call
\* returned; its backward calls only the matching backward entry point, at
\* most once, and only after the forward entry point has returned.
C1_Forwarding ==
    \A c \in Calls : fn[c] # "none" =>
        LET L == log[c] IN
        /\ Len(L) \in {1, 2}
        /\ L[1].entry = FwdEntry(fn[c])
        /\ Len(L) = 2 =>
              /\ L[2].entry = BwdEntry(fn[c])
              /\ L[1].outcome = "returned"
              /\ pc[c] \in InBackward
        /\ pc[c] \in AfterForward <=> ret[c].status = "returned"
        /\ ret[c].status = "returned" =>
              /\ L[1].outcome = "returned"
              /\ Len(L[1].result) = 1
              /\ ret[c].value = L[1].result

C1_Witness ==
    \E c, d \in Calls :
        /\ fn[c] = "encode" /\ pc[c] = "bwd_done" /\ Len(log[c]) = 2
        /\ fn[d] = "feature_density" /\ pc[d] = "bwd_done" /\ Len(log[d]) = 2

\* C2 as stated: when backward has returned, every input that requires a
\* gradient has a gradient tensor, not None, at its position.
C2_EveryNeededGradient ==
    \A c \in Calls : pc[c] = "bwd_done" =>
        \A i \in 1 .. Len(needs[c]) : needs[c][i] => grads[c].value[i] # None

\* Positions for which backward of function f returns None whatever the flags:
\* query_coordinates of encode and feature_density, and rotations, scales and
\* translations of encode.
NeverDifferentiated(f) ==
    CASE f = "encode" -> {1, 2, 3, 4}
      [] f = "feature_density" -> {1}
      [] OTHER -> {}

\* C2 amended: when backward has returned, every input that requires a
\* gradient has a gradient tensor at its position, except query_coordinates
\* (encode, feature_density) and rotations, scales, translations of encode,
\* whose position holds None even when the input requires a gradient.
C2_NeededGradients ==
    \A c \in Calls : pc[c] = "bwd_done" =>
        /\ Len(grads[c].value) = Len(needs[c])
        /\ \A i \in 1 .. Len(needs[c]) :
              IF i \in NeverDifferentiated(fn[c])
              THEN grads[c].value[i] = None
              ELSE needs[c][i] =>
                      /\ grads[c].value[i] # None
                      /\ grads[c].value[i].from = BwdEntry(fn[c])
                      /\ grads[c].value[i].call = c

C2_Witness ==
    /\ fn[1] = "encode" /\ pc[1] = "bwd_done"
    /\ needs[1] = <<TRUE, TRUE, TRUE, TRUE, TRUE>>
    /\ grads[1].value[2] = None
    /\ grads[1].value[5] # None

\* C3: when a native entry point raises, the handler that called it raises
\* the same error: the call makes no further native call, the handler
\* returns no value, and a raising forward is never followed by a backward.
C3_ErrorsPropagate ==
    \A c \in Calls :
        /\ \A i \in 1 .. Len(log[c]) : log[c][i].outcome = "raised" =>
              /\ i = Len(log[c])
              /\ IF log[c][i].entry \in ForwardEntries
                 THEN /\ pc[c] = "fwd_raised"
                      /\ ret[c] = Raised(log[c][i].err)
                      /\ grads[c] = NoResult
                 ELSE /\ pc[c] = "bwd_raised"
                      /\ grads[c] = Raised(log[c][i].err)
        /\ ret[c].status = "raised" => Pending(c).outcome = "raised"
        /\ grads[c].status = "raised" => Pending(c).outcome = "raised"

C3_Witness ==
    \E c, d \in Calls :
        /\ pc[c] = "fwd_raised" /\ ret[c].err = "RuntimeError"
        /\ pc[d] = "bwd_raised" /\ grads[d].err = "OutOfMemoryError"

\* The tensors the forward of call c gives to save_for_backward.
SavedByForward(c) ==
    CASE fn[c] = "encode" -> EncodeSavedTensors(c, autocast[c])
      [] OTHER -> Inputs(c, fn[c])

C4_OwnContext ==
    \A c \in Calls :
        /\ saved[c] = <<>> \/ saved[c] = SavedByForward(c)
        /\ \A i \in 1 .. Len(saved[c]) : saved[c][i].call = c
        /\ \A i \in 1 .. Len(log[c]) : log[c][i].entry \in BackwardEntries =>
              log[c][i].args = SavedByForward(c) \o <<GradOutput(c)>>

C4_OnlyOwnForwardSaves ==
    \A c \in Calls : saved'[c] # saved[c] =>
        /\ pc[c] \in {"idle", "fwd_native"}
        /\ pc'[c] # pc[c]
        /\ \A d \in Calls \ {c} : saved'[d] = saved[d]

\* C4: under any interleaving of the calls, what backward reads from its
\* context is what the forward of the same call saved, in that order, and a
\* step of one call never changes what another call saved.
C4_NoSharedState == [](C4_OwnContext) /\ [][C4_OnlyOwnForwardSaves]_vars

C4_Witness ==
    \E c, d \in Calls :
        /\ c # d
        /\ fn[c] = "encode" /\ fn[d] = "encode" /\ autocast[c] # autocast[d]
        /\ saved[c] # <<>> /\ saved[d] # <<>>
        /\ pc[c] = "bwd_native" /\ pc[d] = "bwd_done"

\* C5 as stated: once forward of encode has returned, tensors are saved if
\* and only if some input, query_coordinates included, requires a gradient.
C5_SavedIffAnyInputNeedsGrad ==
    \A c \in Calls : (fn[c] = "encode" /\ pc[c] \in AfterForward) =>
        (saved[c] # <<>> <=> \E i \in 1 .. 5 : needs[c][i])

\* C6: backward of encode calls encodeBackward if and only if forward saved
\* tensors: with nothing saved it returns five None and makes no native call,
\* otherwise it calls encodeBackward once with the five saved tensors and
\* grad_output, and returns None four times and the gradient in fifth place.
C6_EncodeBackward ==
    \A c \in Calls : (fn[c] = "encode" /\ pc[c] \in InBackward) =>
        /\ Len(log[c]) = 2 <=> saved[c] # <<>>
        /\ Len(log[c]) = 2 =>
              /\ log[c][2].entry = "encodeBackward"
              /\ Len(saved[c]) = 5
              /\ log[c][2].args = saved[c] \o <<GradOutput(c)>>
        /\ (pc[c] = "bwd_done" /\ saved[c] = <<>>) =>
              grads[c].value = <<None, None, None, None, None>>
        /\ (pc[c] = "bwd_done" /\ saved[c] # <<>>) =>
              /\ Len(grads[c].value) = 5
              /\ \A i \in 1 .. 4 : grads[c].value[i] = None
              /\ grads[c].value[5] # None
              /\ grads[c].value[5].from = "encodeBackward"
              /\ grads[c].value[5].name = log[c][2].result[1].name
              /\ grads[c].value[5].call = c

C6_Witness ==
    /\ fn[1] = "encode" /\ pc[1] = "bwd_done"
    /\ Len(log[1]) = 2 /\ log[1][2].outcome = "returned"
    /\ needs[1] = <<FALSE, FALSE, FALSE, FALSE, TRUE>>

\* C7: for every 5-axis shape, permuting by (2, 3, 4, 0, 1) and then by
\* (3, 4, 0, 1, 2) gives back the original axis order and the original shape.
C7_PermutationsInverse ==
    stage = "gradient" => (order = <<0, 1, 2, 3, 4>> /\ shape = shape0)

C7_Witness ==
    /\ stage = "gradient"
    /\ shape0 = <<1, 2, 3, 2, 3>>

\* t is u with its axes in the order perm, in dense memory.
Relaid(t, u, perm) ==
    /\ t.call = u.call /\ t.name = u.name /\ t.from = u.from
    /\ t.axes = PermuteSeq(u.axes, perm)
    /\ t.layout = "dense"

\* t is u with no axis moved.
NotRelaid(t, u) == [t EXCEPT !.dtype = u.dtype] = u

====
